---- MODULE Spec2Model ----
(***************************************************************************)
(* Model of cognite/client/stable/datapoints.py: the parallel paging of    *)
(* DatapointsClient.get_datapoints (window split, one paginator per        *)
(* sub-window on a thread pool, join in dispatch order) and the lockstep   *)
(* paging of DatapointsClient.get_multi_time_series_datapoints.            *)
(*                                                                         *)
(* Time is in milliseconds.  Datapoints are modelled by their timestamps;  *)
(* values play no part in paging.  Optional Python values are modelled as  *)
(* sets: None is {} and a present value x is {x}.                          *)
(***************************************************************************)
EXTENDS Integers, Sequences, FiniteSets, TLC

VARIABLES
    pc,          \* "idle", "paging" and "limited" (get_datapoints), "multi",
                 \* "frame" (get_datapoints_frame), "returned", "raised"
    kw,          \* the arguments of the call in progress
    pool,        \* get_datapoints: one _get_datapoints_helper frame per sub-window
    completion,  \* get_datapoints: the order in which the workers finished
    queries,     \* get_multi_time_series_datapoints: the DatapointsQuery objects
    multi,       \* get_multi_time_series_datapoints: the locals of the call, the
                 \* requests sent and the exception that ended it, if any
    limited,     \* get_datapoints: the _get_datapoints_user_defined_limit frame
    kwargs,      \* get_datapoints: the keyword arguments the caller passes
    response     \* what the caller received: None or the datapoints returned

vars == <<pc, kw, pool, completion, queries, multi, limited, kwargs, response>>

----------------------------------------------------------------------------
(* Bounds of the model *)

\* The latest end of a requested window.
MaxTime == 6
\* The largest `workers` argument.
MaxWorkers == 2
\* The page limit of raw data (APIClient._LIMIT, 100000 in the SDK), scaled.
LIMIT == 2
\* The page limit of aggregates (APIClient._LIMIT_AGG, 10000 in the SDK), scaled.
LIMIT_AGG == 1
\* Milliseconds in the granularity unit "s" (1000 in the SDK), scaled.
MsPerSecond == 2
\* The largest factor of a granularity string ("1s", "2s", ...).
MaxFactor == 2
\* The largest `limit` argument of get_datapoints.
MaxUserLimit == 2
\* The largest end of the window of get_datapoints_frame.
MaxFrameEnd == 8
\* The most pages a server that repeats itself repeats to one helper.
MaxStale == 1
\* The shared end of the window of a get_multi_time_series_datapoints call.
MultiEnd == 2
\* The most requests one get_multi_time_series_datapoints call is followed for.
MaxRequests == 4

----------------------------------------------------------------------------
(* Python values *)

None == {}
Some(x) == {x}
Get(o) == CHOOSE x \in o : TRUE

Min(a, b) == IF a <= b THEN a ELSE b
Max(a, b) == IF a >= b THEN a ELSE b
Last(s) == s[Len(s)]

RECURSIVE Flatten(_)
\* dps = []; [dps.extend(el) for el in datapoints]
Flatten(lists) ==
    IF lists = <<>> THEN <<>> ELSE Head(lists) \o Flatten(Tail(lists))

SetMin(S) == CHOOSE x \in S : \A y \in S : x <= y

RECURSIVE Ascending(_)
\* The elements of a set of timestamps in ascending order.
Ascending(S) ==
    IF S = {} THEN <<>>
    ELSE LET m == SetMin(S) IN <<m>> \o Ascending(S \ {m})

StrictlyAscending(s) == \A i \in 1..(Len(s) - 1) : s[i] < s[i + 1]

----------------------------------------------------------------------------
(* _utils: time-window utilities *)

\* A granularity string "<factor><unit>", e.g. "2s".
Granularities == [factor : 1..MaxFactor, unit : {"s"}]

UnitMs(unit) == IF unit = "s" THEN MsPerSecond ELSE 0

\* _utils.granularity_to_ms: the unit's milliseconds times the factor.
granularity_to_ms(granularity) == granularity.factor * UnitMs(granularity.unit)

\* _utils.round_to_nearest: the largest multiple of base that is <= x.
round_to_nearest(x, base) == (x \div base) * base

----------------------------------------------------------------------------
(* The server behind self._get *)

\* The pages a fetch of [start, end) with `limit` may return: at most `limit`
\* points with strictly ascending timestamps inside the requested window.
Pages(start, end, limit) ==
    { Ascending(S) : S \in { T \in SUBSET (start..(end - 1)) : Cardinality(T) <= limit } }

----------------------------------------------------------------------------
(* get_datapoints: the window split *)

\* granularity_ms = 1; if granularity: granularity_ms = granularity_to_ms(granularity)
GranularityMs(granularity) ==
    IF granularity # None THEN granularity_to_ms(Get(granularity)) ELSE 1

Steps_IgnoresWorkers(diff, num_of_workers, granularity_ms) ==
    Max(1, diff \div granularity_ms)

\* steps = min(num_of_workers, max(1, int(diff / granularity_ms)))
Steps(diff, num_of_workers, granularity_ms) ==
    Min(num_of_workers, Max(1, diff \div granularity_ms))

StepSize_NoRounding(diff, steps, granularity_ms) == diff \div steps

StepSize_RoundsUp(diff, steps, granularity_ms) ==
    (((diff \div steps) + granularity_ms - 1) \div granularity_ms) * granularity_ms

\* step_size = round_to_nearest(int(diff / steps), base=granularity_ms)
StepSize(diff, steps, granularity_ms) ==
    round_to_nearest(diff \div steps, granularity_ms)

\* step_starts = [start + (i * step_size) for i in range(steps)]
StepStarts(start, steps, step_size) ==
    [i \in 1..steps |-> start + ((i - 1) * step_size)]

Args_EndFromCallStart(start, steps, step_size) ==
    [i \in 1..steps |->
        [start |-> StepStarts(start, steps, step_size)[i],
         end   |-> start + step_size]]

\* args = [{"start": start, "end": start + step_size} for start in step_starts]
Args(start, steps, step_size) ==
    [i \in 1..steps |->
        [start |-> StepStarts(start, steps, step_size)[i],
         end   |-> StepStarts(start, steps, step_size)[i] + step_size]]

----------------------------------------------------------------------------
(* _get_datapoints_helper *)

\* limit = self._LIMIT if aggregates is None else self._LIMIT_AGG
HelperLimit(aggregates) == IF aggregates = None THEN LIMIT ELSE LIMIT_AGG

UseProtobuf_AlsoForAggregates(protobuf, aggregates) == protobuf = Some(TRUE)

\* use_protobuf = kwargs.get("protobuf", True) and aggregates is None, as the
\* test `if use_protobuf` reads it; `protobuf` is the value the caller passed
\* under that key, None being Python's None.
UseProtobuf(protobuf, aggregates) == protobuf = Some(TRUE) /\ aggregates = None

\* headers = {"accept": "application/protobuf"} if use_protobuf else {}: the
\* accept header, if there is one
Headers(use_protobuf) ==
    IF use_protobuf THEN Some("application/protobuf") ELSE None

\* The frame of one _get_datapoints_helper call at its entry: the args it was
\* dispatched with, params, the list of pages, and (for the record) every page
\* received and the requests sent.
HelperFrame(aggregates, granularity, start, end, include_outside_points, protobuf) ==
    [ args        |-> [start |-> start, end |-> end],
      headers     |-> Headers(UseProtobuf(protobuf, aggregates)),
      aggregates  |-> aggregates,
      granularity |-> granularity,
      limit       |-> HelperLimit(aggregates),
      includeOutsidePoints |-> include_outside_points,
      start       |-> start,
      end         |-> end,
      datapoints  |-> <<>>,
      received    |-> <<>>,
      requests    |-> <<>>,
      status      |-> "running",
      dps         |-> None ]

LoopCondition_IgnoresPageLength(f) == f.end > f.start

LoopCondition_IgnoresWindow(f) ==
    IF f.datapoints = <<>> THEN TRUE ELSE Len(Last(f.datapoints)) = f.limit

\* while (not datapoints or len(datapoints[-1]) == limit) and params["end"] > params["start"]
LoopCondition(f) ==
    /\ (IF f.datapoints = <<>> THEN TRUE ELSE Len(Last(f.datapoints)) = f.limit)
    /\ f.end > f.start

NextStart_NoStep(res, granularity) == Last(res)

NextStart_FirstTimestamp(res, granularity) ==
    res[1] + (IF granularity # None THEN granularity_to_ms(Get(granularity)) ELSE 1)

NextStart_IgnoresGranularity(res, granularity) == Last(res) + 1

\* latest_timestamp + (granularity_to_ms(granularity) if granularity else 1)
NextStart(res, granularity) ==
    Last(res) + (IF granularity # None THEN granularity_to_ms(Get(granularity)) ELSE 1)

\* self._get(url, params=params, headers=headers): the params of the request
Sent(f) ==
    [f EXCEPT !.requests = Append(@, [start |-> f.start, end |-> f.end, limit |-> f.limit,
                                      includeOutsidePoints |-> f.includeOutsidePoints,
                                      headers |-> f.headers])]

AfterPage_NoBreak(f, res) ==
    LET g == [Sent(f) EXCEPT !.received = Append(@, res)] IN
    IF res = <<>>
    THEN [g EXCEPT !.status = "failed"]
    ELSE [g EXCEPT !.datapoints = Append(@, res),
                   !.start = NextStart(res, f.granularity)]

\* One pass of the loop body with the page `res`: an empty page breaks out of
\* the loop and returns; any other page is appended and moves params["start"].
AfterPage(f, res) ==
    LET g == [Sent(f) EXCEPT !.received = Append(@, res)] IN
    IF res = <<>>
    THEN [g EXCEPT !.status = "done", !.dps = Some(Flatten(g.datapoints))]
    ELSE [g EXCEPT !.datapoints = Append(@, res),
                   !.start = NextStart(res, f.granularity)]

AfterError_ReturnsPartial(f) ==
    [Sent(f) EXCEPT !.status = "done", !.dps = Some(Flatten(f.datapoints))]

\* self._get raises: the exception leaves the helper, nothing is returned.
AfterError(f) == [Sent(f) EXCEPT !.status = "failed"]

\* The loop condition is false: dps = []; extend; return dps.
AfterLoop(f) == [f EXCEPT !.status = "done", !.dps = Some(Flatten(f.datapoints))]

----------------------------------------------------------------------------
(* get_datapoints *)

Finished(f) == f.status \in {"done", "failed"}

MapResults_CompletionOrder(frames, order) ==
    [k \in 1..Len(order) |-> frames[order[k]]]

\* p.map yields the workers' results in the order of `args`.
MapResults(frames, order) == frames

Outcome_IgnoresFailures(results) ==
    [pc |-> "returned",
     response |-> Some(Flatten([i \in 1..Len(results) |->
                        IF results[i].status = "done" THEN Get(results[i].dps) ELSE <<>>]))]

\* [concat_dps.extend(el) for el in datapoints]: iterating the results of
\* p.map re-raises the exception of the first worker that failed.
Outcome(results) ==
    IF \E i \in 1..Len(results) : results[i].status = "failed"
    THEN [pc |-> "raised", response |-> None]
    ELSE [pc |-> "returned",
          response |-> Some(Flatten([i \in 1..Len(results) |-> Get(results[i].dps)]))]

Init ==
    /\ pc = "idle"
    /\ kw = None
    /\ pool = <<>>
    /\ completion = <<>>
    /\ queries = <<>>
    /\ multi = None
    /\ limited = None
    /\ kwargs = None
    /\ response = None

\* Python truthiness of an optional integer: None and 0 are false.
Truthy(o) == IF o = None THEN FALSE ELSE Get(o) # 0

NumOfWorkers_NotForced(workers, include_outside_points) == workers

\* num_of_workers = kwargs.get("workers", ...)
\* if kwargs.get("include_outside_points") is True: num_of_workers = 1
NumOfWorkers(workers, include_outside_points) ==
    IF include_outside_points = Some(TRUE) THEN 1 ELSE workers

\* kwargs.get("include_outside_points", False)
OutsidePoints(include_outside_points) ==
    IF include_outside_points = None THEN FALSE ELSE Get(include_outside_points)

\* if kwargs.get("limit"): the user-defined-limit path is taken
TakesLimitPath(limit) == Truthy(limit)

\* _get_datapoints_user_defined_limit at its entry: params
LimitedFrame(aggregates, granularity, start, end, limit, include_outside_points, protobuf) ==
    [ aggregates  |-> aggregates,
      headers     |-> Headers(UseProtobuf(protobuf, aggregates)),
      granularity |-> granularity,
      limit       |-> limit,
      start       |-> start,
      end         |-> end,
      includeOutsidePoints |-> include_outside_points,
      received    |-> <<>>,
      requests    |-> <<>> ]

\* The keyword arguments get_datapoints is called with.
Kwargs ==
    [ workers : 1..MaxWorkers,
      include_outside_points : {None, Some(TRUE), Some(FALSE)},
      limit : {None} \cup {Some(l) : l \in 0..MaxUserLimit},
      protobuf : {None, Some(TRUE), Some(FALSE)} ]

\* protobuf=kwargs.get("protobuf", True), passed to the helper
PagedProtobuf(protobuf) == IF protobuf = None THEN Some(TRUE) ELSE protobuf

\* protobuf=kwargs.get("protobuf"), passed to _get_datapoints_user_defined_limit
LimitedProtobuf(protobuf) == protobuf

\* get_datapoints(name, start, end, aggregates, granularity, **kwargs) down
\* to the dispatch of the workers, or to the call of
\* _get_datapoints_user_defined_limit when a limit is given.
\* The caller puts together the keyword arguments of a get_datapoints call.
PassKwargs ==
    /\ pc = "idle"
    /\ kwargs = None
    /\ \E k \in Kwargs : kwargs' = Some(k)
    /\ UNCHANGED <<pc, kw, pool, completion, queries, multi, limited, response>>

GetDatapoints ==
    /\ pc = "idle"
    /\ kwargs # None
    /\ \E start \in 0..1, end \in 1..MaxTime,
          aggregates \in {None, Some(<<"avg">>)},
          granularity \in {None} \cup {Some(g) : g \in Granularities} :
        /\ start < end
        /\ LET diff == end - start
               num_of_workers == NumOfWorkers(Get(kwargs).workers, Get(kwargs).include_outside_points)
               granularity_ms == GranularityMs(granularity)
               steps == Steps(diff, num_of_workers, granularity_ms)
               step_size == StepSize(diff, steps, granularity_ms)
               args == Args(start, steps, step_size)
               outside == OutsidePoints(Get(kwargs).include_outside_points)
           IN  IF TakesLimitPath(Get(kwargs).limit)
               THEN /\ kw' = Some([start |-> start, end |-> end, workers |-> Get(kwargs).workers,
                                   aggregates |-> aggregates, granularity |-> granularity,
                                   include_outside_points |-> Get(kwargs).include_outside_points,
                                   limit |-> Get(kwargs).limit,
                                   protobuf |-> Get(kwargs).protobuf,
                                   granularity_ms |-> 0, steps |-> 0, step_size |-> 0])
                    /\ limited' = Some(LimitedFrame(aggregates, granularity, start, end,
                                                    Get(Get(kwargs).limit), outside,
                                                    LimitedProtobuf(Get(kwargs).protobuf)))
                    /\ pool' = <<>>
                    /\ pc' = "limited"
               ELSE /\ kw' = Some([start |-> start, end |-> end, workers |-> Get(kwargs).workers,
                                   aggregates |-> aggregates, granularity |-> granularity,
                                   include_outside_points |-> Get(kwargs).include_outside_points,
                                   limit |-> Get(kwargs).limit,
                                   protobuf |-> Get(kwargs).protobuf,
                                   granularity_ms |-> granularity_ms,
                                   steps |-> steps, step_size |-> step_size])
                    /\ limited' = None
                    /\ pool' = [i \in 1..steps |->
                                 HelperFrame(aggregates, granularity,
                                             args[i].start, args[i].end, outside,
                                             PagedProtobuf(Get(kwargs).protobuf))]
                    /\ pc' = "paging"
    /\ UNCHANGED <<completion, queries, multi, response, kwargs>>

\* _get_datapoints_user_defined_limit: the one request is answered with a page,
\* which is returned.
LimitedFetch ==
    /\ pc = "limited"
    /\ LET f == Get(limited) IN
       \E res \in Pages(f.start, f.end, f.limit) :
         /\ limited' = Some([Sent(f) EXCEPT !.received = Append(@, res)])
         /\ response' = Some(res)
    /\ pc' = "returned"
    /\ UNCHANGED <<kw, pool, completion, queries, multi, kwargs>>

\* _get_datapoints_user_defined_limit: the one request raises.
LimitedFetchFails ==
    /\ pc = "limited"
    /\ limited' = Some(Sent(Get(limited)))
    /\ pc' = "raised"
    /\ UNCHANGED <<kw, pool, completion, queries, multi, response, kwargs>>

\* The worker threads of a get_datapoints call exist: they run whether or not
\* the caller is still waiting for them.
Dispatched == pc \in {"paging", "returned", "raised"}

Track(i) == IF Finished(pool'[i]) THEN Append(completion, i) ELSE completion

\* Worker i: the loop condition holds, the request is answered with a page.
HelperFetch(i) ==
    /\ Dispatched
    /\ pool[i].status = "running"
    /\ LoopCondition(pool[i])
    /\ \E res \in Pages(pool[i].start, pool[i].end, pool[i].limit) :
         pool' = [pool EXCEPT ![i] = AfterPage(pool[i], res)]
    /\ completion' = Track(i)
    /\ UNCHANGED <<pc, kw, queries, multi, response, limited, kwargs>>

\* Worker i: the loop condition holds, the request raises.
HelperFetchFails(i) ==
    /\ Dispatched
    /\ pool[i].status = "running"
    /\ LoopCondition(pool[i])
    /\ pool' = [pool EXCEPT ![i] = AfterError(pool[i])]
    /\ completion' = Track(i)
    /\ UNCHANGED <<pc, kw, queries, multi, response, limited, kwargs>>

\* Worker i: the loop condition is false, the helper returns.
HelperReturn(i) ==
    /\ Dispatched
    /\ pool[i].status = "running"
    /\ ~LoopCondition(pool[i])
    /\ pool' = [pool EXCEPT ![i] = AfterLoop(pool[i])]
    /\ completion' = Track(i)
    /\ UNCHANGED <<pc, kw, queries, multi, response, limited, kwargs>>

\* The pages of helper f that repeated the page received before them.
Repeated(f) == {k \in 2..Len(f.received) : f.received[k] = f.received[k - 1]}

\* Worker i: the loop condition holds, and the server answers the request with
\* the full page it returned last, which does not advance.
HelperFetchStale(i) ==
    /\ Dispatched
    /\ pool[i].status = "running"
    /\ LoopCondition(pool[i])
    /\ pool[i].datapoints # <<>>
    /\ Cardinality(Repeated(pool[i])) < MaxStale
    /\ pool' = [pool EXCEPT ![i] = AfterPage(pool[i], Last(pool[i].datapoints))]
    /\ completion' = Track(i)
    /\ UNCHANGED <<pc, kw, queries, multi, response, limited, kwargs>>

AllJoined_FailFast(frames) ==
    \/ \A i \in 1..Len(frames) : Finished(frames[i])
    \/ \E i \in 1..Len(frames) : frames[i].status = "failed"

\* with Pool(steps) as p: leaving the block shuts the executor down and waits
\* for every worker.
AllJoined(frames) == \A i \in 1..Len(frames) : Finished(frames[i])

\* The with-block ends once every worker has finished; the results are joined.
GetDatapointsJoin ==
    /\ pc = "paging"
    /\ AllJoined(pool)
    /\ LET out == Outcome(MapResults(pool, completion)) IN
         /\ pc' = out.pc
         /\ response' = out.response
    /\ UNCHANGED <<kw, pool, completion, queries, multi, limited, kwargs>>

----------------------------------------------------------------------------
(* DatapointsQuery *)

\* ",".join(aggregates), for lists of at most one aggregate function.
Join(aggregates) == IF aggregates = <<>> THEN "" ELSE aggregates[1]

\* DatapointsQuery.__init__(name, aggregates, granularity, start=None, end, limit=None)
DatapointsQuery(name, aggregates, granularity, end) ==
    [ name        |-> name,
      aggregates  |-> IF aggregates # None THEN Some(Join(Get(aggregates))) ELSE None,
      granularity |-> granularity,
      start       |-> None,
      end         |-> IF Truthy(end) THEN end ELSE None,
      limit       |-> None ]

RECURSIVE Iterated(_, _)
\* DatapointsResponseIterator: the objects successive calls of __next__ return
\* from the given counter on, until StopIteration.
Iterated(datapoints_objects, counter) ==
    IF counter > Len(datapoints_objects) - 1
    THEN <<>>
    ELSE <<datapoints_objects[counter + 1]>> \o Iterated(datapoints_objects, counter + 1)

----------------------------------------------------------------------------
(* get_multi_time_series_datapoints *)

\* if (dpq.aggregates is None and aggregates is None) or dpq.aggregates == "": raw
CountedRaw(dpq, aggregates) ==
    IF dpq.aggregates = None THEN aggregates = None ELSE Get(dpq.aggregates) = ""

\* num_of_dpqs_raw
NumRaw(dpqs, aggregates) ==
    Cardinality({i \in 1..Len(dpqs) : CountedRaw(dpqs[i], aggregates)})

\* num_of_dpqs_with_agg
NumWithAgg(dpqs, aggregates) ==
    Cardinality({i \in 1..Len(dpqs) : ~CountedRaw(dpqs[i], aggregates)})

\* if dpq.aggregates is None and aggregates is None: the raw budget
BudgetedRaw(dpq, aggregates) == dpq.aggregates = None /\ aggregates = None

\* The divisor of the limit of dpq.
Divisor(dpq, dpqs, aggregates) ==
    IF BudgetedRaw(dpq, aggregates)
    THEN NumRaw(dpqs, aggregates) ELSE NumWithAgg(dpqs, aggregates)

\* dpq.limit = int(self._LIMIT / num_of_dpqs_raw) or int(self._LIMIT_AGG / num_of_dpqs_with_agg)
QueryLimit(dpq, dpqs, aggregates) ==
    IF BudgetedRaw(dpq, aggregates)
    THEN LIMIT \div NumRaw(dpqs, aggregates)
    ELSE LIMIT_AGG \div NumWithAgg(dpqs, aggregates)

\* The queries whose limit computation divides by zero (ZeroDivisionError).
DividesByZero(dpqs, aggregates) ==
    {i \in 1..Len(dpqs) : Divisor(dpqs[i], dpqs, aggregates) = 0}

\* The for loop that sets dpq.limit, up to the first query that raises.
WithLimits(dpqs, aggregates) ==
    [i \in 1..Len(dpqs) |->
        IF \E j \in DividesByZero(dpqs, aggregates) : j <= i
        THEN dpqs[i]
        ELSE [dpqs[i] EXCEPT !.limit = Some(QueryLimit(dpqs[i], dpqs, aggregates))]]

\* The window the server reads from item dpq of the body: the item's own start
\* and end where it has them, the body's otherwise.
ItemStart(dpq, m) == IF dpq.start # None THEN Get(dpq.start) ELSE m.start
ItemEnd(dpq, m) == IF dpq.end # None THEN Get(dpq.end) ELSE m.end

\* The answers self._post may give to the body: one page per query.
BatchPages(dpqs, m) ==
    { res \in [1..Len(dpqs) -> UNION {Pages(ItemStart(dpqs[i], m), ItemEnd(dpqs[i], m),
                                             Get(dpqs[i].limit)) : i \in 1..Len(dpqs)}] :
        \A i \in 1..Len(dpqs) :
            res[i] \in Pages(ItemStart(dpqs[i], m), ItemEnd(dpqs[i], m), Get(dpqs[i].limit)) }

\* len(dpr["datapoints"]) == dpq.limit
FullPage(dpq, dpr) == Len(dpr) = Get(dpq.limit)

\* ts_granularity = granularity if dpq.granularity is None else dpq.granularity
TsGranularity(dpq, m) == IF dpq.granularity = None THEN m.granularity ELSE dpq.granularity

MultiNextStart_Min(dpq, dpr, m) ==
    IF FullPage(dpq, dpr)
    THEN Last(dpr) + (IF TsGranularity(dpq, m) # None
                      THEN granularity_to_ms(Get(TsGranularity(dpq, m))) ELSE 1)
    ELSE IF Truthy(dpq.end) THEN Min(m.end, Get(dpq.end)) - 1 ELSE m.end - 1

\* next_start of query dpq after its page dpr
MultiNextStart(dpq, dpr, m) ==
    IF FullPage(dpq, dpr)
    THEN Last(dpr) + (IF TsGranularity(dpq, m) # None
                      THEN granularity_to_ms(Get(TsGranularity(dpq, m))) ELSE 1)
    ELSE IF Truthy(dpq.end) THEN Get(dpq.end) - 1 ELSE m.end - 1

\* dpr["datapoints"][-1] of an empty page that counts as full (limit 0): IndexError
IndexErrors(dpqs, res) ==
    {i \in 1..Len(dpqs) : FullPage(dpqs[i], res[i]) /\ res[i] = <<>>}

\* for i, dpr in enumerate(res): ... datapoints_queries[i].start = next_start,
\* up to the first query that raises.
Advanced(dpqs, res, m) ==
    [i \in 1..Len(dpqs) |->
        IF \E j \in IndexErrors(dpqs, res) : j <= i
        THEN dpqs[i]
        ELSE [dpqs[i] EXCEPT !.start = Some(MultiNextStart(dpqs[i], res[i], m))]]

\* has_incomplete_requests after the for loop
HasIncomplete(dpqs, res) == \E i \in 1..Len(dpqs) : FullPage(dpqs[i], res[i])

\* The cursors a body carries.
Cursors(dpqs, m) == [i \in 1..Len(dpqs) |-> ItemStart(dpqs[i], m)]

MultiResults_DropsLastPage(dpqs, responses) ==
    [i \in 1..Len(dpqs) |->
        [name |-> dpqs[i].name,
         datapoints |-> Flatten([k \in 1..(Len(responses) - 1) |-> responses[k][i]])]]

\* results[i]["data"]["items"][0]["datapoints"].extend(ts["datapoints"]) for
\* every res of datapoints_responses
MultiResults(dpqs, responses) ==
    [i \in 1..Len(dpqs) |->
        [name |-> dpqs[i].name,
         datapoints |-> Flatten([k \in 1..Len(responses) |-> responses[k][i]])]]

MultiAfterError_ReturnsPartial(dpqs, m) ==
    [pc |-> "returned", response |-> Some(MultiResults(dpqs, m.datapoints_responses))]

\* self._post raises: the exception leaves the call, nothing is returned.
MultiAfterError(dpqs, m) == [pc |-> "raised", response |-> None]

\* The numbers of queries of one call.  Queries act on each other only through
\* the class counts and has_incomplete_requests, which two queries exercise.
QueryCounts == {1, 2}

\* The names of the queries, by position.
QueryNames == <<"ts1", "ts2">>

\* The aggregates, granularity and end a DatapointsQuery is constructed with.
QueryArgs(end) ==
    [ aggregates  : {None, Some(<<>>), Some(<<"avg">>)},
      granularity : {None, Some([factor |-> 1, unit |-> "s"])},
      end         : {None, Some(0), Some(end - 1), Some(end + 1)} ]

\* get_multi_time_series_datapoints(datapoints_queries, start, end, aggregates,
\* granularity) down to the first request.
GetMulti ==
    /\ pc = "idle"
    /\ kwargs = None
    /\ \E n \in QueryCounts, end \in {MultiEnd},
          aggregates \in {None, Some(<<"avg">>)},
          granularity \in {None, Some([factor |-> 1, unit |-> "s"])} :
        \E qs \in [1..n -> QueryArgs(end)] :
          LET dpqs == [i \in 1..n |-> DatapointsQuery(QueryNames[i], qs[i].aggregates,
                                                      qs[i].granularity, qs[i].end)] IN
            /\ queries' = WithLimits(dpqs, aggregates)
            /\ multi' = Some([start |-> 0, end |-> end,
                              declared |-> qs,
                              aggregates |-> IF aggregates # None
                                             THEN Some(Join(Get(aggregates))) ELSE None,
                              granularity |-> granularity,
                              datapoints_responses |-> <<>>,
                              requests |-> <<>>,
                              error |-> IF DividesByZero(dpqs, aggregates) # {}
                                        THEN "ZeroDivisionError" ELSE ""])
            /\ IF DividesByZero(dpqs, aggregates) # {}
               THEN pc' = "raised"
               ELSE pc' = "multi"
    /\ kw' = None
    /\ UNCHANGED <<pool, completion, response, limited, kwargs>>

\* One pass of the while loop: the request is answered; the cursors move; when
\* no page was full the results are built and returned.
MultiPost ==
    /\ pc = "multi"
    /\ Len(Get(multi).requests) < MaxRequests
    /\ LET m == Get(multi) IN
       \E res \in BatchPages(queries, m) :
         LET responses == Append(m.datapoints_responses, res) IN
           /\ multi' = Some([m EXCEPT !.datapoints_responses = responses,
                                      !.requests = Append(@, Cursors(queries, m)),
                                      !.error = IF IndexErrors(queries, res) # {}
                                                THEN "IndexError" ELSE ""])
           /\ queries' = Advanced(queries, res, m)
           /\ IF IndexErrors(queries, res) # {}
              THEN pc' = "raised" /\ response' = None
              ELSE IF HasIncomplete(queries, res)
              THEN pc' = "multi" /\ response' = None
              ELSE pc' = "returned" /\ response' = Some(MultiResults(queries, responses))
    /\ UNCHANGED <<kw, pool, completion, limited, kwargs>>

\* One pass of the while loop: the request raises.
MultiPostFails ==
    /\ pc = "multi"
    /\ Len(Get(multi).requests) < MaxRequests
    /\ LET m == Get(multi)
           out == MultiAfterError(queries, m) IN
         /\ multi' = Some([m EXCEPT !.requests = Append(@, Cursors(queries, m)),
                                    !.error = "FetchFailed"])
         /\ pc' = out.pc
         /\ response' = out.response
    /\ UNCHANGED <<kw, pool, completion, queries, limited, kwargs>>

----------------------------------------------------------------------------
(* get_datapoints_frame, called with a granularity, with time series given by
   name and without a limit; a dataframe is the sequence of its timestamps *)

\* The pages the server returns for aggregates: rows on the grid of the
\* granularity, ascending, inside [start, end), at most limit of them.
GridPages(start, end, limit, granularity) ==
    {res \in Pages(start, end, limit) :
        \A j \in 1..Len(res) : res[j] % granularity_to_ms(granularity) = 0}

\* num_aggregates += len(aggregates) for every time series given by name
NumAggregates(time_series, aggregates) == Len(time_series) * Len(aggregates)

\* per_tag_limit = int(self._LIMIT / num_aggregates)
PerTagLimit(time_series, aggregates) == LIMIT \div NumAggregates(time_series, aggregates)

\* The frame of one _get_datapoints_frame_helper call at its entry.
FrameHelperFrame(time_series, aggregates, granularity, start, end) ==
    [ args        |-> [start |-> start, end |-> end],
      granularity |-> granularity,
      limit       |-> PerTagLimit(time_series, aggregates),
      start       |-> start,
      end         |-> end,
      dataframes  |-> <<>>,
      received    |-> <<>>,
      requests    |-> <<>>,
      status      |-> "running",
      dps         |-> None ]

\* while (not dataframes or dataframes[-1].shape[0] == per_tag_limit)
\*       and body["end"] > body["start"]
FrameLoopCondition(f) ==
    /\ (IF f.dataframes = <<>> THEN TRUE ELSE Len(Last(f.dataframes)) = f.limit)
    /\ f.end > f.start

FrameNextStart_NoStep(df, granularity) == Last(df)

\* body["start"] = latest_timestamp + _utils.granularity_to_ms(granularity)
FrameNextStart(df, granularity) == Last(df) + granularity_to_ms(granularity)

\* self._post(url=url, body=body, headers=headers): the body of the request
FrameSent(f) ==
    [f EXCEPT !.requests = Append(@, [start |-> f.start, end |-> f.end, limit |-> f.limit])]

\* One pass of the loop body with the dataframe df: it is appended; an empty
\* one breaks out of the loop and the helper returns the concatenation.
FrameAfterPage(f, df) ==
    LET g == [FrameSent(f) EXCEPT !.received = Append(@, df),
                                  !.dataframes = Append(@, df)] IN
    IF df = <<>>
    THEN [g EXCEPT !.status = "done", !.dps = Some(Flatten(g.dataframes))]
    ELSE [g EXCEPT !.start = FrameNextStart(df, f.granularity)]

\* self._post raises: the exception leaves the helper.
FrameAfterError(f) == [FrameSent(f) EXCEPT !.status = "failed"]

\* The loop condition is false: return pd.concat(dataframes), which raises
\* ValueError when there is nothing to concatenate.
FrameAfterLoop(f) ==
    IF f.dataframes = <<>>
    THEN [f EXCEPT !.status = "failed"]
    ELSE [f EXCEPT !.status = "done", !.dps = Some(Flatten(f.dataframes))]

RECURSIVE DropDuplicates(_)
\* drop_duplicates(subset="timestamp"): the first row of every timestamp is kept.
DropDuplicates(rows) ==
    IF rows = <<>> THEN <<>>
    ELSE LET front == DropDuplicates(SubSeq(rows, 1, Len(rows) - 1)) IN
         IF \E j \in 1..Len(front) : front[j] = Last(rows)
         THEN front ELSE Append(front, Last(rows))

\* steps == 1: the dataframe of the one helper call is returned as it is;
\* otherwise pd.concat(dataframes).drop_duplicates(subset="timestamp").
\* An exception of a helper leaves the call.
FrameOutcome(results, steps) ==
    IF \E i \in 1..Len(results) : results[i].status = "failed"
    THEN [pc |-> "raised", response |-> None]
    ELSE IF steps = 1
    THEN [pc |-> "returned", response |-> results[1].dps]
    ELSE [pc |-> "returned",
          response |-> Some(DropDuplicates(Flatten([i \in 1..Len(results) |->
                                                       Get(results[i].dps)])))]

\* num_of_workers = kwargs.get("workers") or self._num_of_workers
FrameNumOfWorkers(workers, num_of_workers) ==
    IF Truthy(workers) THEN Get(workers) ELSE num_of_workers

\* get_datapoints_frame(time_series, aggregates, granularity, start, end,
\* workers=...) down to the call of the helper (steps == 1) or the dispatch of
\* the workers.
GetDatapointsFrame ==
    /\ pc = "idle"
    /\ kwargs = None
    /\ \E start \in 0..1, end \in 1..MaxFrameEnd,
          workers \in {None} \cup {Some(w) : w \in 0..MaxWorkers},
          num_of_workers \in {1, MaxWorkers},
          time_series \in {<<"ts1">>, <<"ts1", "ts2">>},
          aggregates \in {<<"avg">>, <<"avg", "max">>},
          granularity \in Granularities :
        /\ start < end
        /\ LET diff == end - start
               granularity_ms == GranularityMs(Some(granularity))
               steps == Steps(diff, FrameNumOfWorkers(workers, num_of_workers), granularity_ms)
               step_size == StepSize(diff, steps, granularity_ms)
               args == Args(start, steps, step_size)
           IN  /\ kw' = Some([start |-> start, end |-> end, workers |-> workers,
                              time_series |-> time_series, aggregates |-> aggregates,
                              granularity |-> granularity,
                              granularity_ms |-> granularity_ms,
                              steps |-> steps, step_size |-> step_size])
               /\ pool' = IF steps = 1
                          THEN << FrameHelperFrame(time_series, aggregates, granularity,
                                                   start, end) >>
                          ELSE [i \in 1..steps |->
                                   FrameHelperFrame(time_series, aggregates, granularity,
                                                    args[i].start, args[i].end)]
    /\ pc' = "frame"
    /\ UNCHANGED <<completion, queries, multi, limited, response, kwargs>>

\* Helper i: the loop condition holds, the request is answered with a dataframe.
FrameHelperFetch(i) ==
    /\ pc = "frame"
    /\ pool[i].status = "running"
    /\ FrameLoopCondition(pool[i])
    /\ \E df \in GridPages(pool[i].start, pool[i].end, pool[i].limit, pool[i].granularity) :
         pool' = [pool EXCEPT ![i] = FrameAfterPage(pool[i], df)]
    /\ UNCHANGED <<pc, kw, completion, queries, multi, limited, response, kwargs>>

\* Helper i: the loop condition holds, the request raises.
FrameHelperFetchFails(i) ==
    /\ pc = "frame"
    /\ pool[i].status = "running"
    /\ FrameLoopCondition(pool[i])
    /\ pool' = [pool EXCEPT ![i] = FrameAfterError(pool[i])]
    /\ UNCHANGED <<pc, kw, completion, queries, multi, limited, response, kwargs>>

\* Helper i: the loop condition is false, the helper returns.
FrameHelperReturn(i) ==
    /\ pc = "frame"
    /\ pool[i].status = "running"
    /\ ~FrameLoopCondition(pool[i])
    /\ pool' = [pool EXCEPT ![i] = FrameAfterLoop(pool[i])]
    /\ UNCHANGED <<pc, kw, completion, queries, multi, limited, response, kwargs>>

\* Every helper has finished: the dataframes are joined and returned.
GetDatapointsFrameJoin ==
    /\ pc = "frame"
    /\ \A i \in 1..Len(pool) : Finished(pool[i])
    /\ LET out == FrameOutcome(pool, Get(kw).steps) IN
         /\ pc' = out.pc
         /\ response' = out.response
    /\ UNCHANGED <<kw, pool, completion, queries, multi, limited, kwargs>>

----------------------------------------------------------------------------

(* post_datapoints: the locals of the call are kept in kw *)

\* ul_dps_limit = 100000, scaled down
UL_DPS_LIMIT == 2

\* The longest list of datapoints a caller passes.
MaxDatapoints == 5

\* The lists of datapoints (given by their timestamps) a caller passes.
DatapointLists ==
    UNION {[1..n -> 0..1] : n \in 0..MaxDatapoints}

Chunk_Unbounded(datapoints, i) == SubSeq(datapoints, i + 1, Len(datapoints))

\* datapoints[i : i + ul_dps_limit]
Chunk(datapoints, i) ==
    SubSeq(datapoints, i + 1, Min(i + UL_DPS_LIMIT, Len(datapoints)))

\* post_datapoints(name, datapoints) down to the first test of the loop
\* condition: i = 0.
PostDatapoints ==
    /\ pc = "idle"
    /\ kwargs = None
    /\ \E datapoints \in DatapointLists :
         kw' = Some([datapoints |-> datapoints, i |-> 0, requests |-> <<>>])
    /\ pc' = "posting"
    /\ UNCHANGED <<pool, completion, queries, multi, limited, kwargs, response>>

\* while i < len(datapoints)
PostLoopCondition(l) == l.i < Len(l.datapoints)

\* One pass of the loop: the chunk is posted and i += ul_dps_limit.
PostChunk ==
    /\ pc = "posting"
    /\ PostLoopCondition(Get(kw))
    /\ LET l == Get(kw) IN
         kw' = Some([l EXCEPT !.requests = Append(@, Chunk(l.datapoints, l.i)),
                              !.i = l.i + UL_DPS_LIMIT])
    /\ UNCHANGED <<pc, pool, completion, queries, multi, limited, kwargs, response>>

\* One pass of the loop: self._post raises and the exception leaves the call.
PostChunkFails ==
    /\ pc = "posting"
    /\ PostLoopCondition(Get(kw))
    /\ LET l == Get(kw) IN
         kw' = Some([l EXCEPT !.requests = Append(@, Chunk(l.datapoints, l.i))])
    /\ pc' = "raised"
    /\ UNCHANGED <<pool, completion, queries, multi, limited, kwargs, response>>

\* The loop condition is false: the call returns None.
PostReturn ==
    /\ pc = "posting"
    /\ ~PostLoopCondition(Get(kw))
    /\ pc' = "returned"
    /\ response' = None
    /\ UNCHANGED <<kw, pool, completion, queries, multi, limited, kwargs>>

----------------------------------------------------------------------------

(* live_data_generator: the locals of the generator are kept in kw; polls,
   yielded and sleeps record what it has done *)

\* The largest timestamp get_latest reports.
MaxLiveTime == 2

\* The most polls of one generator that are followed.
MaxPolls == 4

\* self.get_latest(name).to_json()["timestamp"]: the timestamps the server may
\* report as latest
LatestTimestamps == 0..MaxLiveTime

\* The first next() of the generator down to the top of the loop:
\* last_timestamp = self.get_latest(name).to_json()["timestamp"]
LiveDataGenerator ==
    /\ pc = "idle"
    /\ kwargs = None
    /\ \E update_frequency \in {1, 2}, timestamp \in LatestTimestamps :
         kw' = Some([update_frequency |-> update_frequency,
                     last_timestamp |-> timestamp,
                     latest |-> None,
                     polls |-> <<timestamp>>,
                     yielded |-> <<>>,
                     sleeps |-> <<>>])
    /\ pc' = "live"
    /\ UNCHANGED <<pool, completion, queries, multi, limited, kwargs, response>>

\* if last_timestamp == latest["timestamp"]
Unchanged(last_timestamp, latest) == last_timestamp = latest

AfterLivePoll_KeepsLastTimestamp(l) == l

\* last_timestamp = latest["timestamp"]
AfterLivePoll(l) == [l EXCEPT !.last_timestamp = Get(l.latest)]

\* One poll: latest = self.get_latest(name).to_json(); when the timestamp is
\* the last one the generator sleeps and goes round the loop, otherwise it
\* yields latest and is suspended.
LivePoll ==
    /\ pc = "live"
    /\ Len(Get(kw).polls) < MaxPolls
    /\ \E timestamp \in LatestTimestamps :
         LET l == [Get(kw) EXCEPT !.latest = Some(timestamp),
                                  !.polls = Append(@, timestamp)]
             poll == Len(l.polls) IN
         IF Unchanged(l.last_timestamp, timestamp)
         THEN /\ kw' = Some(AfterLivePoll([l EXCEPT !.sleeps =
                              Append(@, [poll |-> poll, seconds |-> l.update_frequency])]))
              /\ pc' = "live"
              /\ UNCHANGED response
         ELSE /\ kw' = Some([l EXCEPT !.yielded =
                              Append(@, [poll |-> poll, timestamp |-> timestamp])])
              /\ pc' = "suspended"
              /\ response' = Some(timestamp)
    /\ UNCHANGED <<pool, completion, queries, multi, limited, kwargs>>

\* The consumer asks for the next value: the generator goes on after the
\* yield with last_timestamp = latest["timestamp"].
LiveResume ==
    /\ pc = "suspended"
    /\ kw' = Some(AfterLivePoll(Get(kw)))
    /\ pc' = "live"
    /\ response' = None
    /\ UNCHANGED <<pool, completion, queries, multi, limited, kwargs>>

\* One poll: self.get_latest raises and the exception leaves the generator.
LivePollFails ==
    /\ pc = "live"
    /\ Len(Get(kw).polls) < MaxPolls
    /\ pc' = "raised"
    /\ response' = None
    /\ UNCHANGED <<kw, pool, completion, queries, multi, limited, kwargs>>

----------------------------------------------------------------------------

NextDatapoints ==
    \/ PassKwargs
    \/ GetDatapoints
    \/ \E i \in DOMAIN pool : HelperFetch(i)
    \/ \E i \in DOMAIN pool : HelperFetchFails(i)
    \/ \E i \in DOMAIN pool : HelperReturn(i)
    \/ GetDatapointsJoin
    \/ LimitedFetch
    \/ LimitedFetchFails

NextMulti ==
    \/ GetMulti
    \/ MultiPost
    \/ MultiPostFails

NextFrame ==
    \/ GetDatapointsFrame
    \/ \E i \in DOMAIN pool : FrameHelperFetch(i)
    \/ \E i \in DOMAIN pool : FrameHelperFetchFails(i)
    \/ \E i \in DOMAIN pool : FrameHelperReturn(i)
    \/ GetDatapointsFrameJoin

\* get_datapoints against a server that may repeat pages.
NextStaleServer ==
    \/ NextDatapoints
    \/ \E i \in DOMAIN pool : HelperFetchStale(i)

NextPost ==
    \/ PostDatapoints
    \/ PostChunk
    \/ PostChunkFails
    \/ PostReturn

NextLive ==
    \/ LiveDataGenerator
    \/ LivePoll
    \/ LiveResume
    \/ LivePollFails

Next == NextStaleServer \/ NextMulti \/ NextFrame \/ NextPost \/ NextLive

\* Every call the model follows.
Spec == Init /\ [][Next]_vars

\* One get_datapoints call.
SpecDatapoints == Init /\ [][NextDatapoints]_vars

\* One get_multi_time_series_datapoints call.
SpecMulti == Init /\ [][NextMulti]_vars

\* One get_datapoints call against a server that may repeat pages.
SpecStaleServer == Init /\ [][NextStaleServer]_vars

\* One get_datapoints_frame call.
SpecFrame == Init /\ [][NextFrame]_vars

\* One post_datapoints call.
SpecPost == Init /\ [][NextPost]_vars

\* One generator of live_data_generator and its consumer.
SpecLive == Init /\ [][NextLive]_vars

\* One get_datapoints call whose workers keep running and whose requests are
\* all answered (with a page or an error).
FairSpecDatapoints == SpecDatapoints /\ WF_vars(NextDatapoints)

----------------------------------------------------------------------------
(* Properties *)

Frames == {pool[i] : i \in DOMAIN pool}

CallFinished == pc \in {"returned", "raised"}

\* Worker i received a full page in this step.
ReceivedFullPage(i) ==
    /\ i \in DOMAIN pool'
    /\ Len(pool'[i].received) = Len(pool[i].received) + 1
    /\ Len(Last(pool'[i].received)) = pool[i].limit

\* C1: Paginator progress and termination: params["start"] is strictly greater
\* after every full page than before it, and every get_datapoints call whose
\* requests are answered comes to an end.
C1_ProgressAndTermination ==
    /\ [][\A i \in DOMAIN pool : ReceivedFullPage(i) => pool'[i].start > pool[i].start]_vars
    /\ (pc = "paging") ~> CallFinished

\* A paginator that went through a full page and a later page and returned.
C1_Witness ==
    /\ pc = "returned"
    /\ \E f \in Frames : Len(f.received) >= 2 /\ Len(f.received[1]) = f.limit

\* C2: No duplicate boundary points: in the pages a helper accumulates and
\* returns, the first timestamp of every page after the first is strictly
\* greater than the last timestamp of the page before it.
C2_NoDuplicateBoundary ==
    \A f \in Frames :
        /\ \A k \in 1..(Len(f.datapoints) - 1) :
              f.datapoints[k + 1][1] > Last(f.datapoints[k])
        /\ f.status = "done" => f.dps = Some(Flatten(f.datapoints))

\* A helper that returned two pages.
C2_Witness ==
    \E f \in Frames : f.status = "done" /\ Len(f.datapoints) >= 2

\* C3: Order preservation under concurrency: whatever the order in which the
\* workers finish, the datapoints get_datapoints returns are in strictly
\* ascending timestamp order.
C3_OrderPreserved ==
    pc = "returned" => StrictlyAscending(Get(response))

\* Two workers returned data and the later sub-window finished first.
C3_Witness ==
    /\ pc = "returned"
    /\ Len(pool) >= 2
    /\ completion[1] = 2
    /\ Get(pool[1].dps) # <<>>
    /\ Get(pool[2].dps) # <<>>

\* C4: Split coverage: the sub-windows handed to the workers begin at start
\* and end at end, so none of [start, end) is left unfetched.
C4_SplitCoverage ==
    pc = "paging" =>
        /\ pool[1].args.start = Get(kw).start
        /\ pool[Len(pool)].args.end = Get(kw).end

\* C5: Split alignment and disjointness: sub-window i ends exactly where
\* sub-window i+1 starts, and every boundary is start plus a multiple of
\* granularity_ms.
C5_AlignedAndContiguous ==
    pc = "paging" =>
        /\ \A i \in 1..(Len(pool) - 1) : pool[i].args.end = pool[i + 1].args.start
        /\ \A i \in 1..Len(pool) :
              /\ (pool[i].args.start - Get(kw).start) % GranularityMs(Get(kw).granularity) = 0
              /\ (pool[i].args.end - Get(kw).start) % GranularityMs(Get(kw).granularity) = 0

\* A split into several sub-windows whose step size had to be rounded.
C5_Witness ==
    /\ pc = "paging"
    /\ Len(pool) >= 2
    /\ Get(kw).granularity # None
    /\ Get(kw).step_size > 0
    /\ Get(kw).step_size < (Get(kw).end - Get(kw).start) \div Get(kw).steps

\* C6: No empty sub-windows: every sub-window dispatched has start < end.
C6_NoEmptySubWindow ==
    pc = "paging" => \A i \in 1..Len(pool) : pool[i].args.start < pool[i].args.end

\* C7: Short page is terminal: a page shorter than limit is the last page a
\* helper receives, and the helper returns every page received, that one included.
C7_ShortPageTerminal ==
    \A f \in Frames :
        /\ \A k \in 1..(Len(f.received) - 1) : Len(f.received[k]) = f.limit
        /\ f.status # "failed" => Len(f.requests) = Len(f.received)
        /\ f.status = "done" => f.dps = Some(Flatten(f.received))

\* A helper that returned after a full page and a short, non-empty page.
C7_Witness ==
    \E f \in Frames :
        /\ f.status = "done"
        /\ Len(f.received) = 2
        /\ f.received[2] # <<>>
        /\ Len(f.received[2]) < f.limit

\* C8: Empty first page: when its first fetch returns an empty page, the
\* helper returns an empty list, without raising, after exactly one fetch.
C8_EmptyFirstPage ==
    \A f \in Frames :
        (Len(f.received) >= 1 /\ f.received[1] = <<>>) =>
            /\ f.status = "done"
            /\ f.dps = Some(<<>>)
            /\ Len(f.requests) = 1
            /\ Len(f.received) = 1

\* A helper whose first page was empty, in a call that returned.
C8_Witness ==
    /\ pc = "returned"
    /\ \E f \in Frames : f.received = << <<>> >>

\* C9: All-or-nothing fan-out: once the fetch of any worker has raised, the
\* call never returns a response; when the workers are joined it raises.
C9_AllOrNothing ==
    (\E f \in Frames : f.status = "failed") =>
        /\ pc \in {"paging", "raised"}
        /\ response = None

\* The call raised although another worker had returned datapoints.
C9_Witness ==
    /\ pc = "raised"
    /\ \E f \in Frames : f.status = "failed"
    /\ \E f \in Frames : f.status = "done" /\ f.dps # Some(<<>>)

\* A request of the helper was not answered with a page: it raised.
FetchRaised(f) == Len(f.requests) > Len(f.received)

HelperFailed(f) ==
    /\ f.status = "failed"
    /\ f.dps = None
    /\ Len(f.requests) = Len(f.received) + 1

MultiFailed ==
    /\ pc = "raised"
    /\ response = None
    /\ Len(Get(multi).requests) = Len(Get(multi).datapoints_responses) + 1

\* C10: Fetch failure aborts sequential paging: a fetch that raises ends the
\* helper, and ends get_multi_time_series_datapoints, at that request: the
\* failing request is the last one, nothing is retried and no page is returned.
C10_FetchFailureAborts ==
    /\ [](\A f \in Frames : FetchRaised(f) => HelperFailed(f))
    /\ [][\A i \in DOMAIN pool : FetchRaised(pool[i]) => pool'[i] = pool[i]]_vars
    /\ []((multi # None /\ Get(multi).error = "FetchFailed") => MultiFailed)
    /\ [][(multi # None /\ Get(multi).error = "FetchFailed") => UNCHANGED vars]_vars

\* get_multi_time_series_datapoints raised on a request that followed a page.
C10_Witness ==
    /\ multi # None
    /\ Get(multi).error = "FetchFailed"
    /\ Get(multi).datapoints_responses # <<>>
    /\ \E i \in 1..Len(queries) : Get(multi).datapoints_responses[1][i] # <<>>

\* Every request get_datapoints has sent, in either path.
AllRequests ==
    UNION {{f.requests[k] : k \in 1..Len(f.requests)} : f \in Frames}
    \cup (IF limited = None THEN {}
          ELSE {Get(limited).requests[k] : k \in 1..Len(Get(limited).requests)})

\* C11: Outside-points mode is serial: when the caller passes
\* include_outside_points=True, the split produces exactly one sub-window for
\* exactly one worker, whatever `workers` and the window are, and every
\* request sent carries includeOutsidePoints = true.
C11_OutsidePointsSerial ==
    (kw # None /\ Get(kw).include_outside_points = Some(TRUE)) =>
        /\ limited = None => (Get(kw).steps = 1 /\ Len(pool) = 1)
        /\ \A r \in AllRequests : r.includeOutsidePoints = TRUE

\* Outside points requested with several workers over a window long enough to
\* split, and the one helper has sent a second request.
C11_Witness ==
    /\ kw # None
    /\ Get(kw).include_outside_points = Some(TRUE)
    /\ Get(kw).workers >= 2
    /\ Get(kw).end - Get(kw).start >= 2
    /\ Get(kw).granularity_ms = 1
    /\ Len(pool) = 1
    /\ Len(pool[1].requests) >= 2

\* C12: User-defined limit disables paging: a call that was given a limit
\* starts no worker pool and sends exactly one request, which carries that
\* limit and the full [start, end) window, even when the page is full.
C12_UserLimitDisablesPaging ==
    (kw # None /\ Get(kw).limit # None) =>
        /\ pool = <<>>
        /\ limited # None
        /\ Len(Get(limited).requests) <= 1
        /\ pc \in {"returned", "raised"} =>
               /\ Len(Get(limited).requests) = 1
               /\ Get(limited).requests[1].start = Get(kw).start
               /\ Get(limited).requests[1].end = Get(kw).end
               /\ Get(limited).requests[1].limit = Get(Get(kw).limit)

\* The pages get_multi_time_series_datapoints received for query i, in order.
PagesOf(i) ==
    [k \in 1..Len(Get(multi).datapoints_responses) |-> Get(multi).datapoints_responses[k][i]]

\* The step of series i: its own granularity if set, else the shared one, else 1 ms.
SeriesStep(i) ==
    LET g == TsGranularity(queries[i], Get(multi)) IN
    IF g # None THEN granularity_to_ms(Get(g)) ELSE 1

\* The server kept to the grid of series i: every timestamp it returned is a
\* multiple of the step of the series.
OnGrid(i) ==
    \A k \in 1..Len(PagesOf(i)) : \A j \in 1..Len(PagesOf(i)[k]) :
        PagesOf(i)[k][j] % SeriesStep(i) = 0

\* get_multi_time_series_datapoints returned its responses.
MultiReturned == multi # None /\ pc = "returned"

\* C13: Multi-series spacing: in every series returned by
\* get_multi_time_series_datapoints, consecutive timestamps differ by a nonzero
\* multiple of the step of that series, whenever the server kept to its grid.
C13_MultiSpacing ==
    MultiReturned =>
        \A i \in 1..Len(queries) :
            LET dps == Get(response)[i].datapoints IN
            OnGrid(i) =>
                \A k \in 1..(Len(dps) - 1) :
                    /\ dps[k + 1] # dps[k]
                    /\ (dps[k + 1] - dps[k]) % SeriesStep(i) = 0

RECURSIVE AscendingSeq(_)
\* The elements of a set of integers, in ascending order.
AscendingSeq(S) ==
    IF S = {} THEN <<>> ELSE <<SetMin(S)>> \o AscendingSeq(S \ {SetMin(S)})

\* The page a server holding the timestamps D answers to a request for
\* [start, end) with the given limit.
PageOfData(D, start, end, limit) ==
    LET inside == AscendingSeq({t \in D : start <= t /\ t < end})
    IN  SubSeq(inside, 1, Min(limit, Len(inside)))

\* The pages received for query i all come from one unchanging series.
FixedData(i) ==
    LET m == Get(multi) IN
    \E D \in SUBSET (0..(m.end + 1)) :
        \A k \in 1..Len(m.datapoints_responses) :
            m.datapoints_responses[k][i] =
                PageOfData(D, m.requests[k][i], ItemEnd(queries[i], m), Get(queries[i].limit))

\* Every page of the batched response res is shorter than its query's limit.
AllShort(res) == \A i \in 1..Len(queries) : ~FullPage(queries[i], res[i])

\* C14: Multi-series termination: the loop of get_multi_time_series_datapoints
\* ends exactly after the first iteration in which every page is short, and it
\* always ends: against a server whose series do not change, the loop never
\* comes back to a request it has sent before.
C14_MultiTermination ==
    /\ MultiReturned =>
           LET responses == Get(multi).datapoints_responses IN
           /\ AllShort(Last(responses))
           /\ \A k \in 1..(Len(responses) - 1) : ~AllShort(responses[k])
    /\ (multi # None /\ pc = "multi" /\ \A i \in 1..Len(queries) : FixedData(i)) =>
           \A k \in 1..Len(Get(multi).requests) :
               Get(multi).requests[k] # Cursors(queries, Get(multi))

\* Query i is done after iteration k: its page of that iteration was short.
DoneAfter(i, k) == ~FullPage(queries[i], Get(multi).datapoints_responses[k][i])

\* The queries the k-th request carries a cursor for.
Carried(k) == DOMAIN Get(multi).requests[k]

\* C15: Done queries are not fetched again: once a page of a query was short,
\* no later request carries that query and no later page extends its result.
C15_DoneNotFetchedAgain ==
    multi # None =>
        \A i \in 1..Len(queries) :
            \A k \in 1..Len(Get(multi).datapoints_responses) :
                DoneAfter(i, k) =>
                    /\ \A j \in (k + 1)..Len(Get(multi).requests) : i \notin Carried(j)
                    /\ \A j \in (k + 1)..Len(Get(multi).datapoints_responses) :
                           Get(multi).datapoints_responses[j][i] = <<>>

\* The for loop of the last iteration reached query i: no earlier page of that
\* response raised IndexError.
ReachedInLast(i) ==
    \A j \in IndexErrors(queries, Last(Get(multi).datapoints_responses)) : i < j

\* Query i's page of the last iteration was short and its cursor was set.
ShortInLast(i) ==
    /\ multi # None
    /\ Get(multi).datapoints_responses # <<>>
    /\ ~FullPage(queries[i], Last(Get(multi).datapoints_responses)[i])
    /\ ReachedInLast(i)

\* C16 as stated: after a short page the cursor is min(shared end, own end) - 1
\* if the query declared its own end and shared end - 1 otherwise, and it
\* never exceeds shared end - 1.
C16_FinalBoundaryMin ==
    \A i \in 1..Len(queries) :
        ShortInLast(i) =>
            LET own == Get(multi).declared[i].end
                shared == Get(multi).end IN
            /\ queries[i].start =
                   Some(IF own # None THEN Min(shared, Get(own)) - 1 ELSE shared - 1)
            /\ Get(queries[i].start) <= shared - 1

\* C16: Multi-series final boundary: after a short page the cursor is the
\* query's own end - 1 if the query declared a nonzero end of its own, and
\* shared end - 1 otherwise; no minimum with the shared end is taken.
C16_FinalBoundary ==
    \A i \in 1..Len(queries) :
        ShortInLast(i) =>
            LET own == Get(multi).declared[i].end
                shared == Get(multi).end IN
            queries[i].start = Some(IF Truthy(own) THEN Get(own) - 1 ELSE shared - 1)

\* A query that declared an end beyond the shared end received a short page:
\* its cursor is past shared end - 1.
C16_Witness ==
    \E i \in 1..Len(queries) :
        /\ ShortInLast(i)
        /\ Get(multi).declared[i].end = Some(Get(multi).end + 1)
        /\ Get(queries[i].start) > Get(multi).end - 1

\* The shared `aggregates` argument of the call, as the counting reads it.
SharedAggregates == Get(multi).aggregates

\* The queries of the class of query i: raw (no aggregates of its own and none
\* shared, or aggregates of its own that are empty) or aggregate.
SameClass(i) ==
    {j \in 1..Len(queries) :
        CountedRaw(queries[j], SharedAggregates) = CountedRaw(queries[i], SharedAggregates)}

\* The limit of the class of query i.
ClassLimit(i) == IF CountedRaw(queries[i], SharedAggregates) THEN LIMIT ELSE LIMIT_AGG

\* C17: Per-class page limit: before the loop starts every query has the
\* limit of its own class divided by the number of queries of that class, the
\* class that counted it being the class that budgets it.
C17_PerClassLimit ==
    multi # None =>
        /\ Get(multi).error # "ZeroDivisionError"
        /\ \A i \in 1..Len(queries) :
               queries[i].limit = Some(ClassLimit(i) \div Cardinality(SameClass(i)))

RECURSIVE PageOffset(_, _)
\* The number of datapoints in the pages of query i before its k-th page.
PageOffset(i, k) ==
    IF k <= 1 THEN 0 ELSE PageOffset(i, k - 1) + Len(PagesOf(i)[k - 1])

\* C18: One response per query: iterating what get_multi_time_series_datapoints
\* returns yields one response per input query, in input order; response i
\* carries the name of query i, and its datapoints are the i-th pages of all
\* batched responses, one after the other in iteration order, the last included.
C18_OneResponsePerQuery ==
    MultiReturned =>
        LET out == Iterated(Get(response), 0)
            n == Len(Get(multi).declared)
            pages == Len(Get(multi).datapoints_responses) IN
        /\ Len(out) = n
        /\ \A i \in 1..n :
               /\ out[i].name = QueryNames[i]
               /\ Len(out[i].datapoints) = PageOffset(i, pages + 1)
               /\ \A k \in 1..pages :
                      SubSeq(out[i].datapoints, PageOffset(i, k) + 1, PageOffset(i, k + 1))
                          = PagesOf(i)[k]

\* Two queries returned after two iterations; the two results differ and the
\* last page of one of them, a short one, is not empty.
C18_Witness ==
    /\ MultiReturned
    /\ Len(queries) = 2
    /\ Len(Get(multi).datapoints_responses) = 2
    /\ Get(response)[1].datapoints # Get(response)[2].datapoints
    /\ \E i \in 1..2 : Get(multi).datapoints_responses[2][i] # <<>>

\* get_datapoints_frame returned its dataframe.
FrameReturned ==
    /\ pc = "returned"
    /\ kw # None
    /\ "time_series" \in DOMAIN Get(kw)

\* C19: Frame spacing: the rows get_datapoints_frame returns have ascending,
\* pairwise distinct timestamps whose consecutive deltas are multiples of the
\* granularity, for every number of workers.
C19_FrameSpacing ==
    FrameReturned =>
        LET rows == Get(response) IN
        \A k \in 1..(Len(rows) - 1) :
            /\ rows[k] < rows[k + 1]
            /\ (rows[k + 1] - rows[k]) % Get(kw).granularity_ms = 0

\* Several workers returned rows, and one of them received a full page
\* followed by another page with rows in its sub-window.
C19_Witness ==
    /\ FrameReturned
    /\ Get(kw).steps >= 2
    /\ \A f \in Frames : f.dps # Some(<<>>)
    /\ \E f \in Frames : Len(f.received) >= 2 /\ f.received[2] # <<>>

\* The k-th page helper f received is full and does not advance beyond the
\* last timestamp received before it.
StalePage(f, k) ==
    /\ k >= 2
    /\ f.received[k] # <<>>
    /\ Len(f.received[k]) = f.limit
    /\ Last(f.received[k]) <= Last(f.received[k - 1])

\* C20: Non-increasing timestamps end paging: a full page that does not
\* advance beyond the last timestamp received ends the helper: it requests
\* nothing after that page and returns without raising.
C20_StalePageEndsPaging ==
    \A f \in Frames :
        \A k \in 1..Len(f.received) :
            StalePage(f, k) =>
                /\ Len(f.requests) = k
                /\ f.status # "failed"
                /\ f.status = "running" => ~LoopCondition(f)

\* The step of helper f: its granularity in ms, or 1 ms without a granularity.
HelperStep(f) == GranularityMs(f.granularity)

Split == kw # None /\ "limit" \in DOMAIN Get(kw) /\ limited = None

C23_EvenSplit ==
    (Split /\ (Get(kw).end - Get(kw).start) % (Get(kw).steps * Get(kw).granularity_ms) = 0) =>
        LET k == Get(kw)
            length == (k.end - k.start) \div k.steps IN
        /\ Len(pool) = k.steps
        /\ \A i \in 1..Len(pool) :
               /\ pool[i].args.start = k.start + (i - 1) * length
               /\ pool[i].args.end = pool[i].args.start + length
        /\ pool[Len(pool)].args.end = k.end

\* A window of two steps of twice the granularity each, split for two workers.
C23_Witness ==
    /\ Split
    /\ Get(kw).steps = 2
    /\ Get(kw).granularity_ms = 2
    /\ Get(kw).end - Get(kw).start = 4
    /\ Len(pool) = 2
    /\ pool[2].args = [start |-> Get(kw).start + 2, end |-> Get(kw).end]

\* The paginators of the call that are running.
Running == {i \in DOMAIN pool : pool[i].status = "running"}

\* C24: Bounded fan-out: get_datapoints dispatches exactly
\* steps = min(workers, max(1, (end - start) \div granularity_ms)) paginators,
\* one per sub-window, to a pool of that size, `workers` being the number of
\* workers in effect (the argument, or 1 in outside-points mode); at no moment
\* do more than `workers` paginators run.
C24_BoundedFanOut ==
    Split =>
        LET k == Get(kw)
            workers == NumOfWorkers(k.workers, k.include_outside_points) IN
        /\ k.steps = Min(workers, Max(1, (k.end - k.start) \div k.granularity_ms))
        /\ Len(pool) = k.steps
        /\ \A i \in 1..Len(pool) :
               pool[i].args = Args(k.start, k.steps, k.step_size)[i]
        /\ Cardinality(Running) <= workers
        /\ Cardinality(Running) <= k.workers

\* The window allows more sub-windows than there are workers, and as many
\* paginators as workers are running at once, each with a request sent.
C24_Witness ==
    /\ Split
    /\ Get(kw).workers >= 2
    /\ (Get(kw).end - Get(kw).start) \div Get(kw).granularity_ms > Get(kw).workers
    /\ Cardinality(Running) = Get(kw).workers
    /\ \A i \in Running : pool[i].requests # <<>>

\* C25: Failure is reported after the join: when get_datapoints has raised,
\* every worker it dispatched has finished, and no worker sends a request or
\* changes its state afterwards.
C25_FailureAfterJoin ==
    /\ []((pc = "raised" /\ Split) => \A f \in Frames : Finished(f))
    /\ [][(pc = "raised" /\ Split) => pool' = pool]_vars

\* The call raised; the worker that failed finished first and another worker
\* went on paging and finished after it.
C25_Witness ==
    /\ pc = "raised"
    /\ Split
    /\ Len(completion) >= 2
    /\ pool[completion[1]].status = "failed"
    /\ \E i \in DOMAIN pool : pool[i].status = "done" /\ Len(pool[i].requests) >= 2

\* C26: Protobuf default: when raw data is requested and the caller does not
\* pass `protobuf`, every request of get_datapoints, on the paged path and on
\* the user-defined-limit path, asks for application/protobuf; no request
\* asks for it when aggregates are given.
C26_ProtobufDefault ==
    (kw # None /\ "protobuf" \in DOMAIN Get(kw)) =>
        \A r \in AllRequests :
            /\ (Get(kw).aggregates = None /\ Get(kw).protobuf = None) =>
                   r.headers = Some("application/protobuf")
            /\ Get(kw).aggregates # None => r.headers = None

\* A limit of the call is computed from a class without queries, or is 0.
ZeroPageLimit ==
    \/ DividesByZero(queries, SharedAggregates) # {}
    \/ \E i \in 1..Len(queries) : queries[i].limit = Some(0)

\* C27: Zero page limit is rejected: when a per-query limit would be computed
\* from a class with zero queries, or would be 0, the call fails up front with
\* an invalid-argument error: it sends no request and raises neither
\* ZeroDivisionError nor, later, IndexError.
C27_ZeroLimitRejected ==
    (multi # None /\ ZeroPageLimit) =>
        /\ pc = "raised"
        /\ Get(multi).error = "InvalidArgument"
        /\ Get(multi).requests = <<>>

\* C28: Every fetch is inside the window: every request of a helper has
\* start < end, its end being the end of the sub-window the helper was called
\* with; a helper whose sub-window is empty, or whose cursor has reached or
\* passed end after a full page, sends no request and returns the list
\* accumulated so far.
C28_FetchInsideWindow ==
    \A f \in Frames :
        /\ \A k \in 1..Len(f.requests) :
               /\ f.requests[k].start < f.requests[k].end
               /\ f.requests[k].end = f.args.end
        /\ f.args.start >= f.args.end =>
               /\ f.requests = <<>>
               /\ f.status \in {"running", "done"}
               /\ f.status = "done" => f.dps = Some(<<>>)
        /\ (f.start >= f.end /\ f.status = "done") =>
               /\ f.dps = Some(Flatten(f.received))
               /\ Len(f.requests) = Len(f.received)

\* A helper whose cursor passed the end of its sub-window after a full page
\* returned that page without another request.
C28_Witness ==
    \E f \in Frames :
        /\ f.status = "done"
        /\ f.start > f.end
        /\ Len(f.requests) = 1
        /\ Len(f.received[1]) = f.limit
        /\ f.dps = Some(f.received[1])

\* The query objects as the caller constructed them before the call.
PassedIn ==
    [i \in 1..Len(queries) |->
        LET q == Get(multi).declared[i] IN
        DatapointsQuery(QueryNames[i], q.aggregates, q.granularity, q.end)]

\* C29: Caller's queries are left untouched: when
\* get_multi_time_series_datapoints has returned, the start, end and other
\* fields of the DatapointsQuery objects passed in are what they were before
\* the call, so that a second call with the same objects asks for every series
\* from the same start as the first.
C29_QueriesUntouched ==
    MultiReturned =>
        /\ queries = PassedIn
        /\ \A i \in 1..Len(queries) :
               ItemStart(queries[i], Get(multi)) = ItemStart(PassedIn[i], Get(multi))

\* The sub-windows get_datapoints hands to its workers for the given start,
\* end, number of workers and granularity (include_outside_points not set).
DatapointsArgs(start, end, workers, granularity) ==
    LET diff == end - start
        granularity_ms == GranularityMs(granularity)
        steps == Steps(diff, NumOfWorkers(workers, None), granularity_ms)
        step_size == StepSize(diff, steps, granularity_ms)
    IN  Args(start, steps, step_size)

\* A call of get_datapoints_frame that was given a number of workers has
\* handed the windows to its helpers.
FrameSplit ==
    /\ pc \in {"frame", "returned", "raised"}
    /\ kw # None
    /\ "time_series" \in DOMAIN Get(kw)
    /\ Truthy(Get(kw).workers)

\* C30: Same range for both entry points: for the same start, end, granularity
\* and worker count, the helpers of get_datapoints_frame are called with the
\* sub-windows get_datapoints computes, and so cover the same overall time
\* range, also when there is only one sub-window (steps == 1).
C30_SameRangeBothEntryPoints ==
    FrameSplit =>
        LET args == DatapointsArgs(Get(kw).start, Get(kw).end, Get(Get(kw).workers),
                                   Some(Get(kw).granularity)) IN
          /\ Len(pool) = Len(args)
          /\ \A i \in 1..Len(pool) : pool[i].args = args[i]
          /\ pool[1].args.start = args[1].start
          /\ Last(pool).args.end = Last(args).end

\* A post_datapoints call is under way or over.
Posting == kw # None /\ "requests" \in DOMAIN Get(kw)

\* ceil(n / ul_dps_limit)
NumChunks(n) == (n + UL_DPS_LIMIT - 1) \div UL_DPS_LIMIT

\* C31: Upload chunking: the requests of post_datapoints carry, in list order,
\* consecutive slices of at most ul_dps_limit datapoints; when the call has
\* returned there were exactly ceil(n / ul_dps_limit) of them and together
\* they are the list passed in, every datapoint once and in order; an empty
\* list issues no request.
C31_UploadChunking ==
    Posting =>
        LET l == Get(kw)
            n == Len(l.datapoints) IN
          /\ \A k \in 1..Len(l.requests) :
                 /\ Len(l.requests[k]) \in 1..UL_DPS_LIMIT
                 /\ l.requests[k] = SubSeq(l.datapoints, (k - 1) * UL_DPS_LIMIT + 1,
                                           Min(k * UL_DPS_LIMIT, n))
          /\ Len(l.requests) <= NumChunks(n)
          /\ pc = "returned" =>
                 /\ Len(l.requests) = NumChunks(n)
                 /\ Flatten(l.requests) = l.datapoints
          /\ n = 0 => l.requests = <<>>

\* A list that is not a multiple of the limit was uploaded in more than one
\* request, the last one shorter.
C31_Witness ==
    /\ Posting
    /\ pc = "returned"
    /\ Len(Get(kw).requests) > 1
    /\ Len(Last(Get(kw).requests)) < UL_DPS_LIMIT
    /\ Get(kw).datapoints[1] # Get(kw).datapoints[2]

\* A generator of live_data_generator has been started.
Live == kw # None /\ "polls" \in DOMAIN Get(kw)

\* The polls whose datapoint was yielded, and the polls after which the
\* generator slept.
YieldedPolls == {Get(kw).yielded[j].poll : j \in 1..Len(Get(kw).yielded)}
SleptPolls == {Get(kw).sleeps[j].poll : j \in 1..Len(Get(kw).sleeps)}

\* C32: Live polling yields only changes: the datapoint of a poll is yielded
\* if and only if its timestamp differs from the timestamp seen at the poll
\* immediately before it; the poll made at start-up is never yielded; two
\* datapoints yielded one after the other have different timestamps; and the
\* generator sleeps update_frequency exactly after the polls that saw no
\* change.
C32_LiveYieldsOnlyChanges ==
    Live =>
        LET l == Get(kw) IN
          /\ 1 \notin YieldedPolls \cup SleptPolls
          /\ \A k \in 2..Len(l.polls) :
                 /\ k \in YieldedPolls <=> l.polls[k] # l.polls[k - 1]
                 /\ k \in SleptPolls <=> l.polls[k] = l.polls[k - 1]
          /\ \A j \in 1..Len(l.yielded) :
                 /\ l.yielded[j].timestamp = l.polls[l.yielded[j].poll]
                 /\ j > 1 => /\ l.yielded[j - 1].poll < l.yielded[j].poll
                             /\ l.yielded[j - 1].timestamp # l.yielded[j].timestamp
          /\ \A j \in 1..Len(l.sleeps) : l.sleeps[j].seconds = l.update_frequency
          /\ pc = "suspended" => response = Some(Last(l.polls))

\* The generator yielded a change, slept on an unchanged poll and yielded the
\* next change.
C32_Witness ==
    /\ Live
    /\ pc = "suspended"
    /\ Len(Get(kw).yielded) = 2
    /\ Len(Get(kw).sleeps) = 1
    /\ Get(kw).yielded[1].poll = 2
    /\ Get(kw).sleeps[1].poll = 3
    /\ Get(kw).yielded[2].poll = 4

====
